---- MODULE Spec2Model ----
(***************************************************************************)
(* DailyGammon score synchronizer (DGscorefetcher.py): the script's run    *)
(* as a state machine over the Links and Matches sheets, the in-memory     *)
(* registry (matches, matches_by_hand, match_id_to_excel), the page cache  *)
(* (html_cache) and finished_by_id, against a DailyGammon site whose data  *)
(* is chosen in Init and whose network calls may fail.                     *)
(***************************************************************************)
EXTENDS Integers, Sequences, FiniteSets, TLC

VARIABLES pc, run, idx, links, scores, matches, matches_by_hand,
          match_id_to_excel, idOrder, html_cache, finished_by_id, finOrder,
          site, fetches, fails, cause, last, linksStart, sheets1,
          call, result

vars == <<pc, run, idx, links, scores, matches, matches_by_hand,
          match_id_to_excel, idOrder, html_cache, finished_by_id, finOrder,
          site, fetches, fails, cause, last, linksStart, sheets1,
          call, result>>

(* ---------------------------- bounds ----------------------------------- *)
\* match identifiers the site knows for the season: 1..MaxMatchId
MaxMatchId == 1
\* runs of the script, one after the other, on the same workbook
MaxRuns == 2
\* network calls that fail in one behaviour
MaxFails == 1

(* ---------------------------- names ------------------------------------ *)
\* A name is a sequence of characters; str.lower() and str.strip() act on it.
Al == <<"A", "l">>
AL == <<"A", "L">>
Bob == <<"B", "o", "b">>
Albert == <<"A", "l", "b", "e", "r", "t">>
Alice == <<"A", "l", "i", "c", "e">>
Carl == <<"C", "a", "r", "l">>

LowerChar(c) ==
    CASE c = "A" -> "a"
      [] c = "B" -> "b"
      [] c = "C" -> "c"
      [] c = "L" -> "l"
      [] OTHER -> c

lower(s) == [i \in 1..Len(s) |-> LowerChar(s[i])]

RECURSIVE lstrip(_)
lstrip(s) == IF s # <<>> /\ Head(s) = " " THEN lstrip(Tail(s)) ELSE s

RECURSIVE rstrip(_)
rstrip(s) ==
    IF s # <<>> /\ s[Len(s)] = " " THEN rstrip(SubSeq(s, 1, Len(s) - 1)) ELSE s

strip(s) == rstrip(lstrip(s))

\* Python's `a in b` on strings
In(a, b) == \E i \in 0..(Len(b) - Len(a)) : SubSeq(b, i + 1, i + Len(a)) = a

\* Python's None where a tuple is expected
None == <<>>

(* ------------------------ map_scores_for_excel ------------------------- *)
\* a variant that looks at the names before the flag
map_scores_names_first(player, opponent, left_name, right_name, left_score, right_score, switched_flag) ==
    LET ln == lower(strip(left_name))
        rn == lower(strip(right_name))
        pn == lower(strip(player))
        on == lower(strip(opponent))
    IN  IF ln = pn /\ rn = on THEN <<left_score, right_score>>
        ELSE IF ln = on /\ rn = pn THEN <<right_score, left_score>>
        ELSE IF switched_flag THEN <<right_score, left_score>>
        ELSE IF In(pn, ln) THEN <<left_score, right_score>>
        ELSE IF In(pn, rn) THEN <<right_score, left_score>>
        ELSE None

map_scores_for_excel(player, opponent, left_name, right_name, left_score, right_score, switched_flag) ==
    LET ln == lower(strip(left_name))
        rn == lower(strip(right_name))
        pn == lower(strip(player))
        on == lower(strip(opponent))
    IN  IF switched_flag THEN <<right_score, left_score>>
        ELSE IF ln = pn /\ rn = on THEN <<left_score, right_score>>
        ELSE IF ln = on /\ rn = pn THEN <<right_score, left_score>>
        ELSE IF In(pn, ln) \/ In(pn, rn) \/ In(on, ln) \/ In(on, rn)
             THEN IF In(pn, ln) THEN <<left_score, right_score>>
                  ELSE IF In(pn, rn) THEN <<right_score, left_score>>
                  ELSE None
        ELSE None

(* ------------------------ extract_latest_score ------------------------- *)
\* A match page is the sequence of its score rows, oldest first; a row is
\* <<left name, right name, left score, right score>>.  The rows are scanned
\* from the bottom, and a row counts only if its text holds a known name.
RECURSIVE extract_latest_score(_, _)
extract_latest_score(html, players_list) ==
    IF html = <<>> THEN None
    ELSE LET row == html[Len(html)]
         IN  IF \E p \in players_list : In(p, row[1]) \/ In(p, row[2])
             THEN <<strip(row[1]), strip(row[2]), row[3], row[4]>>
             ELSE extract_latest_score(SubSeq(html, 1, Len(html) - 1), players_list)

(* ---------------------------- the workbook ----------------------------- *)
\* Players sheet, Links rows and columns, Matches rows: the same roster.
\* Carl is on the roster but not on the site yet: his Players cell has no
\* hyperlink and the site lists no match of his.
players == <<Al, Bob, Carl>>
row_players_links == players
col_opponents_links == players
players_in_matches == players

N == Len(players)
Roster == {players[i] : i \in 1..N}
Keys == {k \in Roster \X Roster : k[1] # k[2]}

\* an empty Links cell (cell.value is None)
NoLink == 0
\* an empty Matches cell (cell.value is None)
Empty == -1
\* the score of a finished match
Final == 11
mid_threshold == 24

MatchIds == 1..MaxMatchId
\* an identifier typed into Links by hand that the site has no match for
StaleId == MaxMatchId + 1
LinkValues == {NoLink} \cup MatchIds \cup {StaleId}

(* ------------------------------ the site ------------------------------- *)
\* site.pair[m]  : who plays match m, as listed by the site (left, right)
\* site.obs[m]   : the scores of the latest row of the match page, or None
\* site.wins[m]  : column of "Wins" in the export's closing line, or NoWins
\* site.hasId[i] : the Players cell of player i carries a user hyperlink
\* site.dg[i]    : the name the site shows for player i
DgNames(i) == IF i = 1 THEN {Al, AL, Albert} ELSE {players[i]}
SitePairs == {<<1, 2>>, <<2, 1>>}
ScorePairs == {<<3, 5>>, <<Final, 5>>}
\* no closing "Wins ... and the match" line in the export
NoWins == -1
WinsColumns == {NoWins, 6, 34}

Sites ==
    [pair : [MatchIds -> SitePairs],
     obs : [MatchIds -> {None} \cup ScorePairs],
     wins : [MatchIds -> WinsColumns],
     hasId : {f \in [1..N -> BOOLEAN] : ~f[N]},
     dg : {f \in [1..N -> UNION {DgNames(i) : i \in 1..N}] : \A i \in 1..N : f[i] \in DgNames(i)}]

\* the page /bg/game/<m>/0/list
PageOf(s, m) ==
    IF m \in MatchIds /\ s.obs[m] # None
    THEN << <<s.dg[s.pair[m][1]], s.dg[s.pair[m][2]], s.obs[m][1], s.obs[m][2]>> >>
    ELSE <<>>

\* the season's rows of /bg/user/<id of player i>: <<opponent name, match id>>
RECURSIVE UserRows(_, _, _)
UserRows(s, i, m) ==
    IF m > MaxMatchId THEN <<>>
    ELSE (IF s.pair[m][1] = i THEN << <<s.dg[s.pair[m][2]], m>> >>
          ELSE IF s.pair[m][2] = i THEN << <<s.dg[s.pair[m][1]], m>> >>
          ELSE <<>>) \o UserRows(s, i, m + 1)

\* outcomes of one network call: it succeeds, or fails while failures remain
Outcomes == {TRUE} \cup (IF fails < MaxFails THEN {FALSE} ELSE {})
Fail(ok) == IF ok THEN fails ELSE fails + 1

Put(f, k, v) == [x \in DOMAIN f \cup {k} |-> IF x = k THEN v ELSE f[x]]
Append1(seq, x) == IF \E i \in 1..Len(seq) : seq[i] = x THEN seq ELSE Append(seq, x)

NoCall == [player |-> <<>>, opponent |-> <<>>, left_name |-> <<>>, right_name |-> <<>>, left_score |-> 0, right_score |-> 0, switched_flag |-> FALSE]
Idle == [op |-> "none", m |-> 0, out |-> "none"]

EmptyFn == [x \in {} |-> 0]

\* the Links sheet before the first run: any cell of a pair the site may
\* know holds nothing, a match id or a stale id; a cell against Carl holds
\* nothing or a stale id; Carl's own row is empty
StartLinks ==
    {l \in [Keys -> LinkValues] :
        \A k \in Keys : /\ k[1] = Carl => l[k] = NoLink
                        /\ k[2] = Carl => l[k] \in {NoLink, StaleId}}

Init ==
    /\ pc = "Login"
    /\ run = 1
    /\ idx = 1
    /\ links \in StartLinks
    /\ scores = [k \in Keys |-> <<Empty, Empty>>]
    /\ matches = EmptyFn
    /\ matches_by_hand = EmptyFn
    /\ match_id_to_excel = EmptyFn
    /\ idOrder = <<>>
    /\ html_cache = EmptyFn
    /\ finished_by_id = EmptyFn
    /\ finOrder = <<>>
    /\ site \in Sites
    /\ fetches = [m \in LinkValues \ {NoLink} |-> 0]
    /\ fails = 0
    /\ cause = "none"
    /\ last = Idle
    /\ linksStart = links
    /\ sheets1 = <<>>
    /\ call = NoCall
    /\ result = None

(* ------------------------------ login ----------------------------------- *)
\* login_session(): raise_for_status() is not caught, a failure ends the run
Login ==
    /\ pc = "Login"
    /\ \E ok \in Outcomes :
         /\ fails' = Fail(ok)
         /\ pc' = IF ok THEN "Step1" ELSE "Aborted"
         /\ cause' = IF ok THEN cause ELSE "login"
         /\ last' = [op |-> "login", m |-> 0, out |-> IF ok THEN "ok" ELSE "fail"]
    /\ idx' = 1
    /\ UNCHANGED <<run, links, scores, matches, matches_by_hand, match_id_to_excel, idOrder, html_cache, finished_by_id, finOrder, site, fetches, linksStart, sheets1, call, result>>

(* --------------------- fetch_list_html and the cache -------------------- *)
\* what fetch_list_html returns: the page, or None (ok = FALSE)
fetch_list_html(s, m, ok) == [ok |-> ok, rows |-> IF ok THEN PageOf(s, m) ELSE <<>>]
\* `not html`
NotHtml(cache, m) == m \notin DOMAIN cache \/ ~cache[m].ok

(* --------------------- Step 1: check existing links --------------------- *)
\* how Step 1 reads the page of a filled Links cell (player_name, opp)
Step1Order(html, player_name, opp) ==
    IF ~html.ok THEN "nohtml"
    ELSE LET score_info == extract_latest_score(html.rows, {player_name, opp})
         IN  IF score_info = None THEN "noscore"
             ELSE LET ln == lower(score_info[1])
                      rn == lower(score_info[2])
                      pn == lower(player_name)
                      on == lower(opp)
                  IN  IF ln = pn /\ rn = on THEN "aligned"
                      ELSE IF ln = on /\ rn = pn THEN "switched"
                      ELSE "unclear"

Step1Cell ==
    /\ pc = "Step1"
    /\ idx <= N * N
    /\ LET player_name == row_players_links[((idx - 1) \div N) + 1]
           opp == col_opponents_links[((idx - 1) % N) + 1]
           key == <<player_name, opp>>
       IN  IF player_name = opp \/ links[key] = NoLink
           THEN /\ last' = [op |-> "step1", m |-> 0, out |-> "skip"]
                /\ UNCHANGED <<matches, matches_by_hand, match_id_to_excel, idOrder, html_cache, fetches, fails>>
           ELSE LET match_id == links[key]
                    cached == match_id \in DOMAIN html_cache
                IN  \E ok \in (IF cached THEN {TRUE} ELSE Outcomes) :
                      LET cache1 == IF cached THEN html_cache
                                    ELSE Put(html_cache, match_id, fetch_list_html(site, match_id, ok))
                          order == Step1Order(cache1[match_id], player_name, opp)
                      IN  /\ html_cache' = cache1
                          /\ fetches' = IF cached THEN fetches
                                        ELSE [fetches EXCEPT ![match_id] = @ + 1]
                          /\ fails' = IF cached THEN fails ELSE Fail(ok)
                          /\ matches' = IF order = "switched" THEN matches
                                        ELSE Put(matches, key, match_id)
                          /\ matches_by_hand' = IF order = "switched"
                                                THEN Put(matches_by_hand, key, <<match_id, TRUE>>)
                                                ELSE matches_by_hand
                          /\ match_id_to_excel' = Put(match_id_to_excel, match_id,
                                                      <<player_name, opp, order = "switched">>)
                          /\ idOrder' = Append1(idOrder, match_id)
                          /\ last' = [op |-> "step1", m |-> match_id, out |-> order]
    /\ idx' = idx + 1
    /\ UNCHANGED <<pc, run, links, scores, finished_by_id, finOrder, site, cause, linksStart, sheets1, call, result>>

Step1End ==
    /\ pc = "Step1"
    /\ idx > N * N
    /\ pc' = "Step2"
    /\ idx' = 1
    /\ last' = [op |-> "step1", m |-> 0, out |-> "end"]
    /\ UNCHANGED <<run, links, scores, matches, matches_by_hand, match_id_to_excel, idOrder, html_cache, finished_by_id, finOrder, site, fetches, fails, cause, linksStart, sheets1, call, result>>

(* --------------------- Step 2: fill missing match IDs ------------------- *)
\* a variant that stores every id it finds in its Links cell
DiscoverRowAlwaysWrite(st, player, row) ==
    LET opponent_name == row[1]
        mid_int == row[2]
        key == <<player, opponent_name>>
        switched_flag == IF mid_int \in DOMAIN st.match_id_to_excel
                         THEN st.match_id_to_excel[mid_int][3]
                         ELSE FALSE
        st1 == [st EXCEPT !.matches = Put(@, key, mid_int),
                          !.match_id_to_excel = Put(@, mid_int, <<player, opponent_name, switched_flag>>),
                          !.idOrder = Append1(@, mid_int)]
    IN  IF opponent_name \notin Roster \/ opponent_name = player THEN st1
        ELSE [st1 EXCEPT !.links = [@ EXCEPT ![key] = mid_int]]

\* one row (opponent_name, match_id) of get_player_matches, lines 458-487;
\* st holds matches, matches_by_hand, match_id_to_excel, idOrder and links
DiscoverRow(st, player, row) ==
    LET opponent_name == row[1]
        mid_int == row[2]
        key == <<player, opponent_name>>
    IN  IF key \in DOMAIN st.matches \/ key \in DOMAIN st.matches_by_hand THEN st
        ELSE LET switched_flag == IF mid_int \in DOMAIN st.match_id_to_excel
                                  THEN st.match_id_to_excel[mid_int][3]
                                  ELSE FALSE
                 st1 == [st EXCEPT !.matches = Put(@, key, mid_int),
                                   !.match_id_to_excel = Put(@, mid_int, <<player, opponent_name, switched_flag>>),
                                   !.idOrder = Append1(@, mid_int)]
             IN  IF player \notin Roster THEN st1
                 ELSE IF opponent_name \notin Roster \/ opponent_name = player THEN st1
                 ELSE IF st1.links[key] = NoLink
                      THEN [st1 EXCEPT !.links = [@ EXCEPT ![key] = mid_int]]
                      ELSE st1

RECURSIVE DiscoverRows(_, _, _)
DiscoverRows(st, player, rows) ==
    IF rows = <<>> THEN st
    ELSE DiscoverRows(DiscoverRow(st, player, Head(rows)), player, Tail(rows))

\* `missing` of line 454
Missing(player) ==
    {opp \in Roster : opp # player /\ <<player, opp>> \notin DOMAIN matches
                                   /\ <<player, opp>> \notin DOMAIN matches_by_hand}

Step2Player ==
    /\ pc = "Step2"
    /\ idx <= N
    /\ LET player == players[idx]
       IN  IF ~site.hasId[idx] \/ Missing(player) = {}
           THEN /\ last' = [op |-> "step2", m |-> 0, out |-> "skip"]
                /\ idx' = idx + 1
                /\ UNCHANGED <<pc, links, matches, match_id_to_excel, idOrder, fails, cause>>
           ELSE \E ok \in Outcomes :
                  IF ok
                  THEN LET st == DiscoverRows([matches |-> matches, matches_by_hand |-> matches_by_hand,
                                               match_id_to_excel |-> match_id_to_excel,
                                               idOrder |-> idOrder, links |-> links],
                                              player, UserRows(site, idx, 1))
                       IN  /\ matches' = st.matches
                           /\ match_id_to_excel' = st.match_id_to_excel
                           /\ idOrder' = st.idOrder
                           /\ links' = st.links
                           /\ last' = [op |-> "step2", m |-> 0, out |-> IF st.links # links THEN "added" ELSE "kept"]
                           /\ idx' = idx + 1
                           /\ UNCHANGED <<pc, fails, cause>>
                  ELSE \* get_player_matches raises: nothing catches it
                       /\ pc' = "Aborted"
                       /\ cause' = "discovery"
                       /\ fails' = fails + 1
                       /\ last' = [op |-> "step2", m |-> 0, out |-> "raise"]
                       /\ UNCHANGED <<idx, links, matches, match_id_to_excel, idOrder>>
    /\ UNCHANGED <<run, scores, matches_by_hand, html_cache, finished_by_id, finOrder, site, fetches, linksStart, sheets1, call, result>>

Step2End ==
    /\ pc = "Step2"
    /\ idx > N
    /\ pc' = "Step3"
    /\ idx' = 1
    /\ last' = [op |-> "step2", m |-> 0, out |-> "end"]
    /\ UNCHANGED <<run, links, scores, matches, matches_by_hand, match_id_to_excel, idOrder, html_cache, finished_by_id, finOrder, site, fetches, fails, cause, linksStart, sheets1, call, result>>

(* --------------------- Step 3: collect finished matches ----------------- *)
\* one row of the player's page, lines 516-548; fin holds finished_by_id and
\* finOrder; exported = FALSE when the export request raised
FinishedRow(fin, player, row, exported) ==
    LET opponent_name == row[1]
        match_id == row[2]
        pos == site.wins[match_id]
        winner == IF pos < mid_threshold THEN player ELSE opponent_name
    IN  IF ~exported \/ pos = NoWins THEN fin
        ELSE [finished_by_id |-> Put(fin.finished_by_id, match_id, winner),
              finOrder |-> Append1(fin.finOrder, match_id)]

RECURSIVE FinishedRows(_, _, _, _, _)
FinishedRows(fin, player, rows, i, bad) ==
    IF i > Len(rows) THEN fin
    ELSE FinishedRows(FinishedRow(fin, player, rows[i], i \notin bad), player, rows, i + 1, bad)

Step3Player ==
    /\ pc = "Step3"
    /\ idx <= N
    /\ LET player == players[idx]
           rows == UserRows(site, idx, 1)
       IN  IF ~site.hasId[idx]
           THEN /\ last' = [op |-> "step3", m |-> 0, out |-> "skip"]
                /\ UNCHANGED <<finished_by_id, finOrder, fails>>
           ELSE \E ok \in Outcomes :
                  IF ~ok
                  THEN /\ fails' = fails + 1
                       /\ last' = [op |-> "step3", m |-> 0, out |-> "nopage"]
                       /\ UNCHANGED <<finished_by_id, finOrder>>
                  ELSE \E bad \in SUBSET (1..Len(rows)) :
                         /\ fails + Cardinality(bad) <= MaxFails
                         /\ LET fin == FinishedRows([finished_by_id |-> finished_by_id, finOrder |-> finOrder],
                                                    player, rows, 1, bad)
                            IN  /\ finished_by_id' = fin.finished_by_id
                                /\ finOrder' = fin.finOrder
                         /\ fails' = fails + Cardinality(bad)
                         /\ last' = [op |-> "step3", m |-> 0, out |-> IF bad = {} THEN "scanned" ELSE "noexport"]
    /\ idx' = idx + 1
    /\ UNCHANGED <<pc, run, links, scores, matches, matches_by_hand, match_id_to_excel, idOrder, html_cache, site, fetches, cause, linksStart, sheets1, call, result>>

\* a variant that goes from finished detection straight to Phase 2
Step3EndSkipsPhase1 ==
    /\ pc = "Step3"
    /\ idx > N
    /\ pc' = "Phase2"
    /\ idx' = 1
    /\ last' = [op |-> "step3", m |-> 0, out |-> "end"]
    /\ UNCHANGED <<run, links, scores, matches, matches_by_hand, match_id_to_excel, idOrder, html_cache, finished_by_id, finOrder, site, fetches, fails, cause, linksStart, sheets1, call, result>>

Step3End ==
    /\ pc = "Step3"
    /\ idx > N
    /\ pc' = "Phase1"
    /\ idx' = 1
    /\ last' = [op |-> "step3", m |-> 0, out |-> "end"]
    /\ UNCHANGED <<run, links, scores, matches, matches_by_hand, match_id_to_excel, idOrder, html_cache, finished_by_id, finOrder, site, fetches, fails, cause, linksStart, sheets1, call, result>>

(* --------------------- Phase 1: intermediate scores --------------------- *)
\* a variant whose guard reads the left cell only
write_score_left_guard(sc, excel_player, excel_opponent, player_score, opponent_score) ==
    IF excel_player \notin Roster \/ excel_opponent \notin Roster
    THEN [scores |-> sc, out |-> "notfound"]
    ELSE LET key == <<excel_player, excel_opponent>>
         IN  IF sc[key][1] = Final
             THEN [scores |-> sc, out |-> "final"]
             ELSE [scores |-> [sc EXCEPT ![key] = <<player_score, opponent_score>>],
                   out |-> "written"]

\* a variant that stores the player's score in both cells
write_score_both_cells(sc, excel_player, excel_opponent, player_score, opponent_score) ==
    IF excel_player \notin Roster \/ excel_opponent \notin Roster
    THEN [scores |-> sc, out |-> "notfound"]
    ELSE LET key == <<excel_player, excel_opponent>>
         IN  IF sc[key][1] = Final \/ sc[key][2] = Final
             THEN [scores |-> sc, out |-> "final"]
             ELSE [scores |-> [sc EXCEPT ![key] = <<player_score, player_score>>],
                   out |-> "written"]

\* write_score_to_excel: the Matches sheet after the call, and what happened
write_score_to_excel(sc, excel_player, excel_opponent, player_score, opponent_score) ==
    IF excel_player \notin Roster \/ excel_opponent \notin Roster
    THEN [scores |-> sc, out |-> "notfound"]
    ELSE LET key == <<excel_player, excel_opponent>>
             left_cell_val == sc[key][1]
             right_cell_val == sc[key][2]
         IN  IF left_cell_val = Final \/ right_cell_val = Final
             THEN [scores |-> sc, out |-> "final"]
             ELSE [scores |-> [sc EXCEPT ![key] = <<player_score, opponent_score>>],
                   out |-> "written"]

Phase1Match ==
    /\ pc = "Phase1"
    /\ idx <= Len(idOrder)
    /\ LET match_id == idOrder[idx]
           excel_player == match_id_to_excel[match_id][1]
           excel_opponent == match_id_to_excel[match_id][2]
           switched_flag == match_id_to_excel[match_id][3]
           refetch == NotHtml(html_cache, match_id)
       IN  \E ok \in (IF refetch THEN Outcomes ELSE {TRUE}) :
             LET cache1 == IF refetch
                           THEN Put(html_cache, match_id, fetch_list_html(site, match_id, ok))
                           ELSE html_cache
                 html == cache1[match_id]
                 res == IF html.ok THEN extract_latest_score(html.rows, Roster) ELSE None
                 mapped == IF res = None THEN None
                           ELSE map_scores_for_excel(excel_player, excel_opponent,
                                                     res[1], res[2], res[3], res[4], switched_flag)
                 wr == IF mapped = None THEN [scores |-> scores, out |-> "none"]
                       ELSE write_score_to_excel(scores, excel_player, excel_opponent,
                                                 mapped[1], mapped[2])
             IN  /\ html_cache' = cache1
                 /\ fetches' = IF refetch THEN [fetches EXCEPT ![match_id] = @ + 1] ELSE fetches
                 /\ fails' = IF refetch THEN Fail(ok) ELSE fails
                 /\ call' = IF res = None THEN call
                            ELSE [player |-> excel_player, opponent |-> excel_opponent,
                                  left_name |-> res[1], right_name |-> res[2],
                                  left_score |-> res[3], right_score |-> res[4],
                                  switched_flag |-> switched_flag]
                 /\ result' = IF res = None THEN result ELSE mapped
                 /\ scores' = wr.scores
                 /\ last' = [op |-> "phase1", m |-> match_id,
                             out |-> IF ~html.ok THEN "nohtml"
                                     ELSE IF res = None THEN "noscore"
                                     ELSE IF mapped = None THEN "unmapped"
                                     ELSE wr.out]
    /\ idx' = idx + 1
    /\ UNCHANGED <<pc, run, links, matches, matches_by_hand, match_id_to_excel, idOrder, finished_by_id, finOrder, site, cause, linksStart, sheets1>>

Phase1End ==
    /\ pc = "Phase1"
    /\ idx > Len(idOrder)
    /\ pc' = "Phase2"
    /\ idx' = 1
    /\ last' = [op |-> "phase1", m |-> 0, out |-> "end"]
    /\ UNCHANGED <<run, links, scores, matches, matches_by_hand, match_id_to_excel, idOrder, html_cache, finished_by_id, finOrder, site, fetches, fails, cause, linksStart, sheets1, call, result>>

(* --------------------- Phase 2: winners get 11 -------------------------- *)
\* a variant that takes no account of switched_flag
WinnerCellIgnoresSwitched(excel_player, excel_opponent, switched_flag, winner_name) ==
    LET winner_lower == lower(strip(winner_name))
    IN  IF winner_lower = lower(excel_player) THEN 1
        ELSE IF winner_lower = lower(excel_opponent) THEN 2
        ELSE 0

\* the cell of the pair that lines 647-657 set to 11: 1 left, 2 right, 0 none
WinnerCell(excel_player, excel_opponent, switched_flag, winner_name) ==
    LET winner_lower == lower(strip(winner_name))
    IN  IF switched_flag
        THEN IF winner_lower = lower(excel_player) THEN 2
             ELSE IF winner_lower = lower(excel_opponent) THEN 1
             ELSE 0
        ELSE IF winner_lower = lower(excel_player) THEN 1
             ELSE IF winner_lower = lower(excel_opponent) THEN 2
             ELSE 0

Phase2Match ==
    /\ pc = "Phase2"
    /\ idx <= Len(finOrder)
    /\ LET match_id == finOrder[idx]
           winner_name == finished_by_id[match_id]
       IN  IF match_id \notin DOMAIN match_id_to_excel
           THEN /\ last' = [op |-> "phase2", m |-> match_id, out |-> "unregistered"]
                /\ UNCHANGED scores
           ELSE LET excel_player == match_id_to_excel[match_id][1]
                    excel_opponent == match_id_to_excel[match_id][2]
                    switched_flag == match_id_to_excel[match_id][3]
                    cell == WinnerCell(excel_player, excel_opponent, switched_flag, winner_name)
                IN  IF excel_player \notin Roster \/ excel_opponent \notin Roster
                    THEN /\ last' = [op |-> "phase2", m |-> match_id, out |-> "notfound"]
                         /\ UNCHANGED scores
                    ELSE /\ scores' = IF cell = 0 THEN scores
                                      ELSE [scores EXCEPT ![<<excel_player, excel_opponent>>][cell] = Final]
                         /\ last' = [op |-> "phase2", m |-> match_id,
                                     out |-> IF cell = 1 THEN "left" ELSE IF cell = 2 THEN "right" ELSE "nowinner"]
    /\ idx' = idx + 1
    /\ UNCHANGED <<pc, run, links, matches, matches_by_hand, match_id_to_excel, idOrder, html_cache, finished_by_id, finOrder, site, fetches, fails, cause, linksStart, sheets1, call, result>>

Phase2End ==
    /\ pc = "Phase2"
    /\ idx > Len(finOrder)
    /\ pc' = "Done"
    /\ idx' = 1
    /\ sheets1' = IF run = 1 THEN <<links, scores>> ELSE sheets1
    /\ last' = [op |-> "phase2", m |-> 0, out |-> "end"]
    /\ UNCHANGED <<run, links, scores, matches, matches_by_hand, match_id_to_excel, idOrder, html_cache, finished_by_id, finOrder, site, fetches, fails, cause, linksStart, call, result>>

(* --------------------- the script is started again ---------------------- *)
\* a new process: the data structures of lines 375-379 are empty again, the
\* workbook is what the last run saved
Rerun ==
    /\ pc = "Done"
    /\ run < MaxRuns
    /\ pc' = "Login"
    /\ run' = run + 1
    /\ idx' = 1
    /\ matches' = EmptyFn
    /\ matches_by_hand' = EmptyFn
    /\ match_id_to_excel' = EmptyFn
    /\ idOrder' = <<>>
    /\ html_cache' = EmptyFn
    /\ finished_by_id' = EmptyFn
    /\ finOrder' = <<>>
    /\ fetches' = [m \in DOMAIN fetches |-> 0]
    /\ linksStart' = links
    /\ last' = Idle
    /\ UNCHANGED <<links, scores, site, fails, cause, sheets1, call, result>>

Next ==
    \/ Login
    \/ Step1Cell
    \/ Step1End
    \/ Step2Player
    \/ Step2End
    \/ Step3Player
    \/ Step3End
    \/ Phase1Match
    \/ Phase1End
    \/ Phase2Match
    \/ Phase2End
    \/ Rerun

Spec == Init /\ [][Next]_vars

(* --------------------- map_scores_for_excel on its own ------------------ *)
\* The function applied to every call over a small universe of names: a
\* record's two names differ, and so do the two names on a page.
MapNames == {Al, AL, Albert, Alice, Bob, Carl}
MapScores == {<<3, 5>>}
MapCalls ==
    {c \in [player : MapNames, opponent : MapNames, left_name : MapNames, right_name : MapNames,
            left_score : {sc[1] : sc \in MapScores}, right_score : {sc[2] : sc \in MapScores},
            switched_flag : BOOLEAN] :
        /\ lower(c.player) # lower(c.opponent)
        /\ lower(c.left_name) # lower(c.right_name)
        /\ <<c.left_score, c.right_score>> \in MapScores}

InitMap ==
    /\ pc = "MapCall"
    /\ call \in MapCalls
    /\ result = None
    /\ run = 1
    /\ idx = 1
    /\ links = [k \in Keys |-> NoLink]
    /\ scores = [k \in Keys |-> <<Empty, Empty>>]
    /\ matches = EmptyFn
    /\ matches_by_hand = EmptyFn
    /\ match_id_to_excel = EmptyFn
    /\ idOrder = <<>>
    /\ html_cache = EmptyFn
    /\ finished_by_id = EmptyFn
    /\ finOrder = <<>>
    /\ site = [pair |-> [m \in MatchIds |-> <<1, 2>>], obs |-> [m \in MatchIds |-> None],
               wins |-> [m \in MatchIds |-> NoWins], hasId |-> [i \in 1..N |-> FALSE],
               dg |-> [i \in 1..N |-> players[i]]]
    /\ fetches = [m \in LinkValues \ {NoLink} |-> 0]
    /\ fails = 0
    /\ cause = "none"
    /\ last = Idle
    /\ linksStart = links
    /\ sheets1 = <<>>

MapApply ==
    /\ pc = "MapCall"
    /\ result' = map_scores_for_excel(call.player, call.opponent, call.left_name, call.right_name,
                                      call.left_score, call.right_score, call.switched_flag)
    /\ pc' = "MapReturned"
    /\ UNCHANGED <<run, idx, links, scores, matches, matches_by_hand, match_id_to_excel, idOrder, html_cache, finished_by_id, finOrder, site, fetches, fails, cause, last, linksStart, sheets1, call>>

NextMap == MapApply

SpecMap == InitMap /\ [][NextMap]_vars

(* ============================ the claims =============================== *)

\* C1 - Finality guard: in WriteIntermediate, a cell pair of the Matches
\* sheet one of whose cells holds 11 is left as it is, in every run.
C1_FinalityGuard ==
    [][pc = "Phase1" =>
         \A k \in Keys : (scores[k][1] = Final \/ scores[k][2] = Final) => scores'[k] = scores[k]]_vars

\* C1 witness: a resolved score different from the pair was about to be
\* written over a pair holding 11, and the write was skipped.
C1_GuardFired ==
    /\ last.op = "phase1"
    /\ last.out = "final"
    /\ result # scores[<<call.player, call.opponent>>]

\* C2 as stated - no step of WriteIntermediate puts 11 into a cell that did
\* not hold 11, whatever the site reports.
C2_NoElevenInPhase1 ==
    [][pc = "Phase1" =>
         \A k \in Keys : \A i \in {1, 2} : scores[k][i] # Final => scores'[k][i] # Final]_vars

\* C2 amended - WriteIntermediate changes a cell pair only to the two scores
\* that the match page of the record reports, in one of the two orders; so a
\* cell gets 11 in WriteIntermediate only from a page that reports 11.
C2_ElevenOnlyFromPage ==
    [][pc = "Phase1" /\ idx <= Len(idOrder) =>
         \A k \in Keys : scores'[k] # scores[k] =>
             LET page == PageOf(site, idOrder[idx])
             IN  /\ page # <<>>
                 /\ scores'[k] \in {<<page[1][3], page[1][4]>>, <<page[1][4], page[1][3]>>}]_vars

\* C2 witness: in the first run, on a sheet that held no 11, WriteIntermediate
\* has just written a pair with an 11 reported by the site.
C2_ElevenWritten ==
    /\ run = 1
    /\ pc = "Phase1"
    /\ last.out = "written"
    /\ \E k \in Keys : scores[k][1] = Final \/ scores[k][2] = Final

\* C3 - Page cache: within one run the page of a match identifier is
\* requested from the site at most once, whatever the outcome of the request.
C3_FetchedAtMostOnce == \A m \in DOMAIN fetches : fetches[m] <= 1

\* C4 - Whole-run idempotence: after a second complete run on the same site
\* data, with no failed network call, Links and Matches are what they were
\* after the first run.
C4_RunIdempotent == (pc = "Done" /\ run = 2 /\ fails = 0) => <<links, scores>> = sheets1

\* C5 - Orientation: when WriteIntermediate has written the pair of a record
\* whose two names are exactly (ignoring case) the two names on the page, the
\* left cell holds the score the page gives the player and the right cell the
\* score it gives the opponent.
C5_OrientationCorrect ==
    LET pn == lower(call.player)
        on == lower(call.opponent)
        ln == lower(call.left_name)
        rn == lower(call.right_name)
    IN  (/\ last.op = "phase1"
         /\ last.out = "written"
         /\ pn # on
         /\ (ln = pn /\ rn = on) \/ (ln = on /\ rn = pn))
        => scores[<<call.player, call.opponent>>] =
               IF ln = pn THEN <<call.left_score, call.right_score>>
                          ELSE <<call.right_score, call.left_score>>

\* C6 - Link non-clobber: a Links cell that holds a value is never changed;
\* discovery writes only into a cell that is empty when it writes.
C6_LinkNonClobber ==
    [][\A k \in Keys : links[k] # NoLink => links'[k] = links[k]]_vars

\* C6 witness: discovery has just handled the page of a player that lists a
\* match against an opponent whose Links cell was filled before the run.
C6_FilledCellMet ==
    /\ last.op = "step2"
    /\ last.out \in {"kept", "added"}
    /\ \E i \in 1..Len(UserRows(site, idx - 1, 1)) :
         LET key == <<players[idx - 1], UserRows(site, idx - 1, 1)[i][1]>>
         IN  /\ key \in Keys
             /\ linksStart[key] # NoLink
             /\ linksStart[key] # UserRows(site, idx - 1, 1)[i][2]
             /\ links[key] = linksStart[key]

\* C7 - map_scores_for_excel against the reference: with the flag, the scores
\* reversed whatever the names; else by exact names, then by the player's name
\* as a part of the left, then of the right name; else none.
resolveScoresRef(c) ==
    LET P == lower(c.player)
        O == lower(c.opponent)
        L == lower(c.left_name)
        R == lower(c.right_name)
        kept == <<c.left_score, c.right_score>>
        reversed == <<c.right_score, c.left_score>>
        aligned == L = P /\ R = O
        swapped == L = O /\ R = P
    IN  CASE c.switched_flag -> reversed
          [] ~c.switched_flag /\ aligned -> kept
          [] ~c.switched_flag /\ ~aligned /\ swapped -> reversed
          [] ~c.switched_flag /\ ~aligned /\ ~swapped /\ In(P, L) -> kept
          [] ~c.switched_flag /\ ~aligned /\ ~swapped /\ ~In(P, L) /\ In(P, R) -> reversed
          [] OTHER -> None

C7_MatchesReference ==
    pc = "MapReturned" =>
        /\ result = resolveScoresRef(call)
        /\ (call.player = Alice /\ call.opponent = Bob /\ call.left_name = Bob /\ call.right_name = Alice)
               => result = <<call.right_score, call.left_score>>
        /\ (call.player = Al /\ call.opponent = Bob /\ call.left_name = Albert /\ call.right_name = Bob
            /\ ~call.switched_flag)
               => result = <<call.left_score, call.right_score>>

\* C7 witness: the function has returned for Alice/Bob against a page that
\* shows Bob : 3, Alice : 5, with the flag set.
C7_ScenarioReturned ==
    /\ pc = "MapReturned"
    /\ call.player = Alice /\ call.opponent = Bob
    /\ call.left_name = Bob /\ call.right_name = Alice
    /\ call.switched_flag
    /\ result = <<5, 3>>

\* C8 - Never guess: without the flag, when the names on the page are neither
\* the record's names in order nor reversed, and both of them contain the
\* player's name or neither contains the player's or the opponent's name, the
\* result is none.
C8_AmbiguousIsNone ==
    LET pn == lower(call.player)
        on == lower(call.opponent)
        ln == lower(call.left_name)
        rn == lower(call.right_name)
    IN  (/\ pc = "MapReturned"
         /\ ~call.switched_flag
         /\ ~(ln = pn /\ rn = on)
         /\ ~(ln = on /\ rn = pn)
         /\ \/ In(pn, ln) /\ In(pn, rn)
            \/ ~In(pn, ln) /\ ~In(pn, rn) /\ ~In(on, ln) /\ ~In(on, rn))
        => result = None

\* C9 - Failure containment: a run ends early only when the login fails.
C9_OnlyLoginTerminates == pc = "Aborted" => cause = "login"

\* C10 - First observation wins: in the verification and discovery passes the
\* record stored for a match identifier never changes once it is stored.
C10_RecordNeverChanges ==
    [][(pc = "Step1" \/ pc = "Step2") =>
         \A m \in DOMAIN match_id_to_excel :
             /\ m \in DOMAIN (match_id_to_excel')
             /\ (match_id_to_excel')[m] = match_id_to_excel[m]]_vars

\* C11 - Discovery respects both key directions: the discovery pass adds a
\* key (player, opponent) to the registry only when neither that key nor
\* (opponent, player) is registered, and it leaves the entry of every
\* registered key as it is.
C11_BothDirections ==
    [][pc = "Step2" =>
         /\ \A k \in DOMAIN (matches') \ DOMAIN matches :
                <<k[2], k[1]>> \notin DOMAIN matches \cup DOMAIN matches_by_hand
         /\ \A k \in DOMAIN matches :
                k \in DOMAIN (matches') /\ (matches')[k] = matches[k]]_vars

\* the phase of the driver a position of the script belongs to: login and
\* Steps 1-2 build the registry, Step 3 detects finished matches, Phase 1
\* writes intermediate scores, Phase 2 writes the final 11
PhaseOf(p) ==
    CASE p \in {"Login", "Step1", "Step2"} -> "LoadRegistry"
      [] p = "Step3" -> "DetectFinished"
      [] p = "Phase1" -> "WriteIntermediate"
      [] p = "Phase2" -> "WriteFinal"
      [] OTHER -> p

\* C12 as stated - Phase order: every change of phase follows LoadRegistry,
\* WriteIntermediate, DetectFinished, WriteFinal, Done (a new run starts from
\* Done, a run may end early while the registry is loaded); in particular
\* DetectFinished is entered from WriteIntermediate only.
C12_IntermediateBeforeDetect ==
    [][PhaseOf(pc') # PhaseOf(pc) =>
         <<PhaseOf(pc), PhaseOf(pc')>> \in
             {<<"LoadRegistry", "WriteIntermediate">>, <<"WriteIntermediate", "DetectFinished">>,
              <<"DetectFinished", "WriteFinal">>, <<"WriteFinal", "Done">>,
              <<"Done", "LoadRegistry">>, <<"LoadRegistry", "Aborted">>}]_vars

\* C12 amended - Phase order: every change of phase follows LoadRegistry,
\* DetectFinished, WriteIntermediate, WriteFinal, Done, so each phase is
\* passed once per run with no return to an earlier one, and
\* WriteIntermediate starts only after DetectFinished has completed.
C12_DetectBeforeIntermediate ==
    [][PhaseOf(pc') # PhaseOf(pc) =>
         <<PhaseOf(pc), PhaseOf(pc')>> \in
             {<<"LoadRegistry", "DetectFinished">>, <<"DetectFinished", "WriteIntermediate">>,
              <<"WriteIntermediate", "WriteFinal">>, <<"WriteFinal", "Done">>,
              <<"Done", "LoadRegistry">>, <<"LoadRegistry", "Aborted">>}]_vars

\* C12 witness: a second run is complete; it registered a match, detected a
\* finished one and went through both write phases, and the sheet holds an 11.
C12_AllPhasesPassed ==
    /\ pc = "Done"
    /\ run = 2
    /\ idOrder # <<>>
    /\ finOrder # <<>>
    /\ last.op = "phase2"
    /\ \E k \in Keys : scores[k][1] = Final \/ scores[k][2] = Final

\* C13 - WriteFinal cell selection and frame: for a finished result whose
\* match is registered with record (player, opponent, switched) and whose two
\* names are rows of the Matches sheet, WriteFinal sets to 11 one cell of the
\* record's pair and changes nothing else: without switched the left cell
\* for winner = player and the right cell for winner = opponent, with
\* switched the right cell for winner = player and the left cell for
\* winner = opponent (names compared ignoring case and surrounding blanks);
\* it writes nothing when the winner is neither name or the match is not
\* registered.
C13_FinalCellAndFrame ==
    [][pc = "Phase2" /\ idx <= Len(finOrder) =>
         LET m == finOrder[idx]
             w == lower(strip(finished_by_id[m]))
         IN  IF m \notin DOMAIN match_id_to_excel THEN scores' = scores
             ELSE LET rec == match_id_to_excel[m]
                      key == <<rec[1], rec[2]>>
                  IN  IF key \notin Keys THEN scores' = scores
                      ELSE IF w = lower(rec[1])
                           THEN scores' = [scores EXCEPT ![key][IF rec[3] THEN 2 ELSE 1] = Final]
                      ELSE IF w = lower(rec[2])
                           THEN scores' = [scores EXCEPT ![key][IF rec[3] THEN 1 ELSE 2] = Final]
                      ELSE scores' = scores]_vars

\* C13 witness: the record of the finished match is switched, its opponent
\* is the winner, and WriteFinal has just set the left cell of the pair,
\* which did not hold 11 when the run began, to 11.
C13_SwitchedOpponentLeft ==
    /\ pc = "Phase2"
    /\ run = 1
    /\ last.op = "phase2"
    /\ last.out = "left"
    /\ last.m \in DOMAIN match_id_to_excel
    /\ LET rec == match_id_to_excel[last.m]
       IN  /\ rec[3]
           /\ lower(finished_by_id[last.m]) = lower(rec[2])
           /\ scores[<<rec[1], rec[2]>>][1] = Final
           /\ scores[<<rec[1], rec[2]>>][2] # Final

\* the cell of the pair (1 left, 2 right) into which write_score_to_excel
\* stores its player_score (side = 1) or its opponent_score (side = 2)
IntermediateCell(excel_player, excel_opponent, side) ==
    LET blank == [k \in Keys |-> <<Empty, Empty>>]
        after == write_score_to_excel(blank, excel_player, excel_opponent, 1, 2).scores
    IN  CHOOSE i \in {1, 2} : after[<<excel_player, excel_opponent>>][i] = side

\* C14 - Column consistency between the two write phases: for a registered
\* record (player, opponent, switched), with either value of switched,
\* WriteFinal puts the 11 of a winning player into the cell where
\* WriteIntermediate stores the player's score, and the 11 of a winning
\* opponent into the cell where it stores the opponent's score.
C14_SameCellBothPhases ==
    [][(pc = "Phase2" /\ idx <= Len(finOrder) /\ finOrder[idx] \in DOMAIN match_id_to_excel) =>
         LET m == finOrder[idx]
             w == lower(strip(finished_by_id[m]))
             rec == match_id_to_excel[m]
             key == <<rec[1], rec[2]>>
         IN  key \in Keys =>
               /\ w = lower(rec[1]) =>
                     scores' = [scores EXCEPT ![key][IntermediateCell(rec[1], rec[2], 1)] = Final]
               /\ (w # lower(rec[1]) /\ w = lower(rec[2])) =>
                     scores' = [scores EXCEPT ![key][IntermediateCell(rec[1], rec[2], 2)] = Final]]_vars

\* the participant a winner name stands for: Step 3 stores either the roster
\* name of the scanned player or the name the site shows for the opponent
PersonOf(name) == CHOOSE i \in 1..N : name = players[i] \/ name \in DgNames(i)

\* C15 - Winner determination is independent of whose history is scanned:
\* when DetectFinished reaches a match for which a winner was already derived
\* through another participant's page, it derives the same participant, so
\* the winner stored for a match never changes during DetectFinished.
C15_WinnerIndependentOfPage ==
    [][pc = "Step3" =>
         \A m \in DOMAIN finished_by_id :
             /\ m \in DOMAIN (finished_by_id')
             /\ PersonOf((finished_by_id')[m]) = PersonOf(finished_by_id[m])]_vars

====
